---- MODULE Spec2Model ----
(***************************************************************************)
(* SpotBot (multi-tenant Bolt app, src/app.js): the Spot and Installation  *)
(* stores, the installation store callbacks and the seven listeners.       *)
(* A listener is a sequence of steps, one per awaited call on the record   *)
(* store or on the identity service; the `say` that follows such a call    *)
(* is part of the step that decides it (it reads and writes no store).     *)
(* Every awaited store call may reject, and users.info may reject.         *)
(* The Spot and Installation documents are those of the schemas with       *)
(* teamId, messageTs and activeChannelId, the fields src/app.js writes.    *)
(* Spec follows one event at a time (the listeners of one message run      *)
(* interleaved, and install/uninstall may fall between any two steps);     *)
(* SpecBoard applies the leaderboard commands to preloaded stores.         *)
(***************************************************************************)
EXTENDS Integers, Sequences, FiniteSets, TLC

\* ---------------------------------------------------------------- bounds
\* Spots the spot listener may create in one behaviour (document ids 1..MaxSpots).
MaxSpots == 1
\* Distinct spotters/targets preloaded in the leaderboard specification.
MaxGroups == 26
\* Longest slash-command argument, in characters, in the leaderboard specification.
MaxTextLen == 3

\* ------------------------------------------------------- program constants
DefaultLimit == 10
MaxLimit == 25
GalleryLimit == 10

\* ---------------------------------------------------------------- domains
Null == "null"
NoUser == 0
NoTs == 0
Tenants == {"T1", "T2"}
Channels == {"C1", "C2"}
Authors == {1}
Ts == {1, 2}
Slots == {1, 2, 3}
FileLists == {<<>>, <<"F1", "F2">>}

\* message.text as a sequence of tokens, command.text as a sequence of characters
SpotTexts == {<<"spotted", "<@U2>", "<@U1>">>, <<"spot">>}
CommandTexts == {<<>>}
Chars == {"0", "5", "9", "a", "-", " "}

VARIABLES
  installs,   \* Installation collection: tenant -> document (or none)
  spots,      \* Spot collection: set of documents
  nextId,     \* next document id / creation time of a Spot
  handlers    \* running and finished listener invocations, by slot

vars == <<installs, spots, nextId, handlers>>

\* ----------------------------------------------------------- Installation
NoInstall == [exists |-> FALSE, activeChannelId |-> Null]

\* upsert with $set of the credential fields: a new document gets the schema
\* default activeChannelId = null, an existing one keeps its activeChannelId
storeInstallation(t) ==
  installs' = [installs EXCEPT ![t] =
                 IF installs[t].exists THEN installs[t]
                 ELSE [exists |-> TRUE, activeChannelId |-> Null]]

\* authorize: the event is only dispatched when the tenant's record is found
fetchInstallation(t) == installs[t].exists

deleteInstallation(t) == installs' = [installs EXCEPT ![t] = NoInstall]

getActiveChannel(teamId) ==
  IF installs[teamId].exists THEN installs[teamId].activeChannelId ELSE Null

\* mutant: an unbound tenant passes the gate
isActiveChannelFailOpen(teamId, channelId) ==
  LET active == getActiveChannel(teamId)
  IN  IF active = Null THEN TRUE ELSE active = channelId

isActiveChannel(teamId, channelId) ==
  LET active == getActiveChannel(teamId)
  IN  IF active = Null THEN FALSE ELSE active = channelId

\* ------------------------------------------------------------------- text
IsUpperMention(tok) == tok \in {"<@U1>", "<@U2>"}
IsLowerMention(tok) == tok \in {"<@u1>", "<@u2>"}
MentionId(tok) == IF tok = "<@U1>" THEN 1 ELSE IF tok = "<@U2>" THEN 2 ELSE NoUser

\* /spot|spotted|<@[A-Z0-9]+>/i
SpotRegex(text) ==
  \E k \in 1..Len(text) :
     text[k] \in {"spot", "spotted"} \/ IsUpperMention(text[k]) \/ IsLowerMention(text[k])

\* /pics/i
PicsRegex(text) == \E k \in 1..Len(text) : text[k] = "pics"

\* /^veto$/i
VetoRegex(text) == text = <<"veto">>

\* text.match(/<@([A-Z0-9]+)>/): the first (upper-case) mention, or null
MentionMatch(text) ==
  LET hits == {k \in 1..Len(text) : IsUpperMention(text[k])}
  IN  IF hits = {} THEN NoUser
      ELSE MentionId(text[CHOOSE k \in hits : \A j \in hits : k <= j])

\* ---------------------------------------------------------------- replies
Reply(type, count, rows) == [type |-> type, count |-> count, rows |-> rows]
NoReply == Reply("none", 0, <<>>)
Say(type) == Reply(type, 0, <<>>)

\* --------------------------------------------------------------- handlers
Idle ==
  [kind |-> "idle", pc |-> "idle", team |-> Null, channel |-> Null, user |-> NoUser,
   ts |-> NoTs, thread_ts |-> NoTs, text |-> <<>>, files |-> <<>>,
   auth |-> "none", reply |-> NoReply]

FirstPc(kind) == IF kind = "setchannel" THEN "auth" ELSE "gate"

Start(kind, m) ==
  [kind |-> kind, pc |-> FirstPc(kind), team |-> m.team, channel |-> m.channel,
   user |-> m.user, ts |-> m.ts, thread_ts |-> m.thread_ts, text |-> m.text,
   files |-> m.files, auth |-> "none", reply |-> NoReply]

Finished(h) == h.pc \in {"idle", "done", "failed"}
FreeSlots == {i \in Slots : Finished(handlers[i])}

\* listeners whose pattern matches, in registration order
Listeners(text) ==
  (IF SpotRegex(text) THEN <<"spot">> ELSE <<>>) \o
  (IF PicsRegex(text) THEN <<"pics">> ELSE <<>>) \o
  (IF VetoRegex(text) THEN <<"veto">> ELSE <<>>)

\* Every matching listener is started. This specification follows one event at a
\* time: its listeners interleave with each other and with install/uninstall, and
\* the slots of the previous event are cleared when the next one is dispatched.
Launch(kinds, m) ==
  /\ Len(kinds) > 0
  /\ FreeSlots = Slots
  /\ handlers' = [i \in Slots |->
                    IF i <= Len(kinds) THEN Start(kinds[i], m) ELSE Idle]

Done(i, reply) ==
  handlers' = [handlers EXCEPT ![i].pc = "done", ![i].reply = reply]
\* the reply that follows client.users.info: its outcome is kept with the handler
Answer(i, res, reply) ==
  handlers' = [handlers EXCEPT ![i].pc = "done", ![i].auth = res, ![i].reply = reply]
Goto(i, pc) == handlers' = [handlers EXCEPT ![i].pc = pc]
\* the rejection is not caught by the listener: it ends without a reply
Escape(i) == handlers' = [handlers EXCEPT ![i].pc = "failed"]

\* where events come from: tenant T2 uses the same channel identifier as T1
Places == {<<"T1", "C1">>, <<"T1", "C2">>, <<"T2", "C1">>}

Event(p, user, ts, thread_ts, text, files) ==
  [team |-> p[1], channel |-> p[2], user |-> user, ts |-> ts, thread_ts |-> thread_ts,
   text |-> text, files |-> files]

Messages ==
  {Event(p, u, ts, NoTs, text, files) :
     p \in Places, u \in Authors, ts \in Ts, text \in SpotTexts, files \in FileLists}
  \cup
  {Event(p, u, 2, NoTs, <<"pics", "<@U2>">>, files) :
     p \in Places, u \in Authors, files \in FileLists}
  \cup
  {Event(p, u, 2, NoTs, <<"pics">>, <<>>) : p \in Places, u \in Authors}
  \cup
  {Event(p, u, 2, thread_ts, <<"veto">>, <<>>) :
     p \in Places, u \in Authors, thread_ts \in {NoTs} \cup Ts}

Commands(names, texts) ==
  {[name |-> n] @@ Event(p, u, NoTs, NoTs, text, <<>>) :
     n \in names, p \in Places, u \in Authors, text \in texts}

\* ------------------------------------------------------------ operations
Install(t) ==
  /\ storeInstallation(t)
  /\ UNCHANGED <<spots, nextId, handlers>>

Uninstall(t) ==
  /\ installs[t].exists
  /\ deleteInstallation(t)
  /\ UNCHANGED <<spots, nextId, handlers>>

DispatchMessage(m) ==
  /\ fetchInstallation(m.team)
  /\ Launch(Listeners(m.text), m)
  /\ UNCHANGED <<installs, spots, nextId>>

DispatchCommand(c) ==
  /\ fetchInstallation(c.team)
  /\ Launch(<<c.name>>, c)
  /\ UNCHANGED <<installs, spots, nextId>>

\* ---- /setchannel
SetChannelAuth(i) ==
  LET h == handlers[i] IN
  /\ h.kind = "setchannel" /\ h.pc = "auth"
  /\ \E res \in {"admin", "member", "fail"} :
       CASE res = "fail"   -> Answer(i, res, Say("TroubleSetChannel"))
         [] res = "member" -> Answer(i, res, Say("AccessDenied"))
         [] res = "admin"  -> handlers' = [handlers EXCEPT ![i].pc = "update", ![i].auth = res]
  /\ UNCHANGED <<installs, spots, nextId>>

\* Installation.findOneAndUpdate({teamId}, {activeChannelId}) without upsert
UpdateActiveChannel(teamId, channelId) ==
  installs' = [installs EXCEPT ![teamId] =
                 IF installs[teamId].exists
                 THEN [installs[teamId] EXCEPT !.activeChannelId = channelId]
                 ELSE installs[teamId]]

SetChannelUpdate(i) ==
  LET h == handlers[i] IN
  /\ h.kind = "setchannel" /\ h.pc = "update"
  /\ \E ok \in BOOLEAN :
       IF ok
       THEN /\ UpdateActiveChannel(h.team, h.channel)
            /\ Done(i, Say("NowActive"))
       ELSE /\ UNCHANGED installs
            /\ Done(i, Say("TroubleSetChannel"))
  /\ UNCHANGED <<spots, nextId>>

\* ---- spot listener
HasImage(files) == Len(files) > 0
FirstFile(files) == IF files = <<>> THEN Null ELSE files[1]

\* mutant: the image is not required
ShouldSaveMentionOnly(targetUser, hasImage) == targetUser # NoUser

\* if (targetUser && hasImage)
ShouldSave(targetUser, hasImage) == targetUser # NoUser /\ hasImage

\* mutant: the last file instead of the first
NewSpotLastFile(h, id) ==
  [id |-> id, teamId |-> h.team, spotterId |-> h.user,
   targetId |-> MentionMatch(h.text), imageUrl |-> h.files[Len(h.files)],
   channelId |-> h.channel, messageTs |-> h.ts, status |-> "confirmed",
   timestamp |-> id]

NewSpot(h, id) ==
  [id |-> id, teamId |-> h.team, spotterId |-> h.user,
   targetId |-> MentionMatch(h.text), imageUrl |-> FirstFile(h.files),
   channelId |-> h.channel, messageTs |-> h.ts, status |-> "confirmed",
   timestamp |-> id]

SpotGate(i) ==
  LET h == handlers[i]
      targetUser == MentionMatch(h.text)
      hasImage == HasImage(h.files)
  IN
  /\ h.kind = "spot" /\ h.pc = "gate"
  /\ \E ok \in BOOLEAN :
       IF ~ok THEN Escape(i)
       ELSE IF ~isActiveChannel(h.team, h.channel) THEN Done(i, NoReply)
       ELSE IF ShouldSave(targetUser, hasImage) THEN Goto(i, "save")
       ELSE IF ~hasImage /\ targetUser # NoUser THEN Done(i, Say("NoPhoto"))
       ELSE Done(i, NoReply)
  /\ UNCHANGED <<installs, spots, nextId>>

SpotSave(i) ==
  LET h == handlers[i] IN
  /\ h.kind = "spot" /\ h.pc = "save"
  /\ \E ok \in BOOLEAN :
       IF ok
       THEN /\ nextId <= MaxSpots
            /\ spots' = spots \cup {NewSpot(h, nextId)}
            /\ nextId' = nextId + 1
            /\ Done(i, Say("Logged"))
       ELSE /\ UNCHANGED <<spots, nextId>>
            /\ Done(i, Say("TroubleSaving"))
  /\ UNCHANGED installs

\* ---- /spotboard and /caughtboard
DigitVal(ch) ==
  IF ch = "1" THEN 1 ELSE IF ch = "5" THEN 5 ELSE IF ch = "9" THEN 9 ELSE 0
IsDigit(ch) == ch \in {"0", "1", "5", "9"}

RECURSIVE SkipSpaces(_)
SkipSpaces(s) == IF s # <<>> /\ Head(s) = " " THEN SkipSpaces(Tail(s)) ELSE s

RECURSIVE DigitsPrefix(_)
DigitsPrefix(s) ==
  IF s # <<>> /\ IsDigit(Head(s)) THEN <<Head(s)>> \o DigitsPrefix(Tail(s)) ELSE <<>>

RECURSIVE DigitsValue(_)
DigitsValue(ds) ==
  IF ds = <<>> THEN 0
  ELSE 10 * DigitsValue(SubSeq(ds, 1, Len(ds) - 1)) + DigitVal(ds[Len(ds)])

\* parseInt: leading blanks, an optional sign, the longest run of digits; NaN without digits
parseInt(text) ==
  LET s == SkipSpaces(text)
      neg == s # <<>> /\ Head(s) = "-"
      ds == DigitsPrefix(IF neg THEN Tail(s) ELSE s)
  IN  IF ds = <<>> THEN [nan |-> TRUE, val |-> 0]
      ELSE [nan |-> FALSE, val |-> IF neg THEN 0 - DigitsValue(ds) ELSE DigitsValue(ds)]

\* mutant: the limit is not clamped
LimitUnclamped(text) ==
  LET p == parseInt(text)
  IN  IF p.nan \/ p.val = 0 THEN DefaultLimit ELSE p.val

\* let limit = parseInt(command.text) || 10; if (limit > 25) limit = 25;
Limit(text) ==
  LET p == parseInt(text)
      limit == IF p.nan \/ p.val = 0 THEN DefaultLimit ELSE p.val
  IN  IF limit > MaxLimit THEN MaxLimit ELSE limit

\* mutant: the tenant is not part of the $match stage
BoardMatchAnyTenant(teamId, channelId) ==
  {s \in spots : s.channelId = channelId /\ s.status = "confirmed"}

\* $match: { teamId, channelId, status: 'confirmed' }
BoardMatch(teamId, channelId) ==
  {s \in spots : s.teamId = teamId /\ s.channelId = channelId /\ s.status = "confirmed"}

GroupKey(kind, s) == IF kind = "spotboard" THEN s.spotterId ELSE s.targetId

\* $sort: { count: -1 }; groups of equal count are listed by ascending key
RECURSIVE SortGroups(_, _)
SortGroups(keys, cnt) ==
  IF keys = {} THEN <<>>
  ELSE LET best == CHOOSE g \in keys :
                     \A o \in keys : cnt[g] > cnt[o] \/ (cnt[g] = cnt[o] /\ g <= o)
       IN  <<[id |-> best, count |-> cnt[best]]>> \o SortGroups(keys \ {best}, cnt)

\* $group by the key with $sum: 1, $sort, $limit
Aggregate(kind, matched, limit) ==
  LET keys == {GroupKey(kind, s) : s \in matched}
      cnt == [g \in keys |-> Cardinality({s \in matched : GroupKey(kind, s) = g})]
      sorted == SortGroups(keys, cnt)
  IN  SubSeq(sorted, 1, IF limit < Len(sorted) THEN limit ELSE Len(sorted))

IsBoard(kind) == kind \in {"spotboard", "caughtboard"}

BoardGate(i) ==
  LET h == handlers[i] IN
  /\ IsBoard(h.kind) /\ h.pc = "gate"
  /\ \E ok \in BOOLEAN :
       IF ~ok THEN Escape(i)
       ELSE IF ~isActiveChannel(h.team, h.channel) THEN Done(i, Say("NotActive"))
       ELSE Goto(i, "aggregate")
  /\ UNCHANGED <<installs, spots, nextId>>

\* the store rejects a $limit that is not positive
BoardAggregate(i) ==
  LET h == handlers[i]
      limit == Limit(h.text)
      leaderboard == Aggregate(h.kind, BoardMatch(h.team, h.channel), limit)
  IN
  /\ IsBoard(h.kind) /\ h.pc = "aggregate"
  /\ \E ok \in BOOLEAN :
       IF ~ok \/ limit < 1 THEN Done(i, Say("TroubleBoard"))
       ELSE IF Len(leaderboard) = 0 THEN Done(i, Say("NoSpotsYet"))
       ELSE Done(i, Reply("Board", limit, leaderboard))
  /\ UNCHANGED <<installs, spots, nextId>>

\* ---- pics listener
PicsFilter(teamId, targetId, channelId) ==
  {s \in spots : /\ s.teamId = teamId /\ s.targetId = targetId
                 /\ s.channelId = channelId /\ s.status = "confirmed"}

\* .sort({ timestamp: -1 })
RECURSIVE NewestFirst(_)
NewestFirst(found) ==
  IF found = {} THEN <<>>
  ELSE LET newest == CHOOSE s \in found : \A o \in found : s.timestamp >= o.timestamp
       IN  <<newest>> \o NewestFirst(found \ {newest})

\* .limit(10)
Find(found) ==
  LET sorted == NewestFirst(found)
  IN  SubSeq(sorted, 1, IF GalleryLimit < Len(sorted) THEN GalleryLimit ELSE Len(sorted))

PicsGate(i) ==
  LET h == handlers[i] IN
  /\ h.kind = "pics" /\ h.pc = "gate"
  /\ \E ok \in BOOLEAN :
       IF ~ok THEN Escape(i)
       ELSE IF ~isActiveChannel(h.team, h.channel) THEN Done(i, NoReply)
       ELSE IF MentionMatch(h.text) = NoUser THEN Done(i, Say("Usage"))
       ELSE Goto(i, "find")
  /\ UNCHANGED <<installs, spots, nextId>>

PicsFind(i) ==
  LET h == handlers[i]
      found == Find(PicsFilter(h.team, MentionMatch(h.text), h.channel))
  IN
  /\ h.kind = "pics" /\ h.pc = "find"
  /\ \E ok \in BOOLEAN :
       IF ~ok THEN Done(i, Say("TroublePics"))
       ELSE IF Len(found) = 0 THEN Done(i, Say("Clean"))
       ELSE Done(i, Reply("Gallery", Len(found), found))
  /\ UNCHANGED <<installs, spots, nextId>>

\* ---- veto listener
IsThreadReply(h) == ~(h.thread_ts = NoTs \/ h.thread_ts = h.ts)

\* mutant: any Spot of the channel, whatever message it came from
VetoFilterAnyMessage(h) ==
  {s \in spots : s.teamId = h.team /\ s.channelId = h.channel}

VetoFilter(h) ==
  {s \in spots : /\ s.teamId = h.team /\ s.messageTs = h.thread_ts
                 /\ s.channelId = h.channel}

VetoGate(i) ==
  LET h == handlers[i] IN
  /\ h.kind = "veto" /\ h.pc = "gate"
  /\ \E ok \in BOOLEAN :
       IF ~ok THEN Escape(i)
       ELSE IF ~isActiveChannel(h.team, h.channel) THEN Done(i, NoReply)
       ELSE IF ~IsThreadReply(h) THEN Done(i, NoReply)
       ELSE Goto(i, "auth")
  /\ UNCHANGED <<installs, spots, nextId>>

VetoAuth(i) ==
  LET h == handlers[i] IN
  /\ h.kind = "veto" /\ h.pc = "auth"
  /\ \E res \in {"admin", "member", "fail"} :
       CASE res = "fail"   -> Answer(i, res, Say("TroubleVeto"))
         [] res = "member" -> Answer(i, res, Say("AccessDeniedVeto"))
         [] res = "admin"  -> handlers' = [handlers EXCEPT ![i].pc = "delete", ![i].auth = res]
  /\ UNCHANGED <<installs, spots, nextId>>

\* mutant: every matching document is removed, one is reported
VetoDeleteAllMatching(i) ==
  LET h == handlers[i] IN
  /\ h.kind = "veto" /\ h.pc = "delete"
  /\ \E ok \in BOOLEAN :
       IF ~ok THEN UNCHANGED spots /\ Done(i, Say("TroubleVeto"))
       ELSE IF VetoFilter(h) = {} THEN UNCHANGED spots /\ Done(i, Say("NoSpotFound"))
       ELSE \E deletedSpot \in VetoFilter(h) :
              /\ spots' = spots \ VetoFilter(h)
              /\ Done(i, Reply("Vetoed", 1, <<deletedSpot>>))
  /\ UNCHANGED <<installs, nextId>>

\* Spot.findOneAndDelete: removes one matching document and returns it, or null
VetoDelete(i) ==
  LET h == handlers[i] IN
  /\ h.kind = "veto" /\ h.pc = "delete"
  /\ \E ok \in BOOLEAN :
       IF ~ok THEN UNCHANGED spots /\ Done(i, Say("TroubleVeto"))
       ELSE IF VetoFilter(h) = {} THEN UNCHANGED spots /\ Done(i, Say("NoSpotFound"))
       ELSE \E deletedSpot \in VetoFilter(h) :
              /\ spots' = spots \ {deletedSpot}
              /\ Done(i, Reply("Vetoed", 1, <<deletedSpot>>))
  /\ UNCHANGED <<installs, nextId>>

\* ---- /reset
\* mutant: the tenant is not part of the filter
ResetFilterAnyTenant(h) == {s \in spots : s.channelId = h.channel}

ResetFilter(h) == {s \in spots : s.teamId = h.team /\ s.channelId = h.channel}

ResetGate(i) ==
  LET h == handlers[i] IN
  /\ h.kind = "reset" /\ h.pc = "gate"
  /\ \E ok \in BOOLEAN :
       IF ~ok THEN Escape(i)
       ELSE IF ~isActiveChannel(h.team, h.channel) THEN Done(i, Say("NotActive"))
       ELSE Goto(i, "auth")
  /\ UNCHANGED <<installs, spots, nextId>>

\* mutant: a failed lookup lets the reset through
ResetAuthFailOpen(i) ==
  LET h == handlers[i] IN
  /\ h.kind = "reset" /\ h.pc = "auth"
  /\ \E res \in {"admin", "member", "fail"} :
       IF res = "member" THEN Answer(i, res, Say("AccessDeniedReset"))
       ELSE handlers' = [handlers EXCEPT ![i].pc = "delete", ![i].auth = res]
  /\ UNCHANGED <<installs, spots, nextId>>

ResetAuth(i) ==
  LET h == handlers[i] IN
  /\ h.kind = "reset" /\ h.pc = "auth"
  /\ \E res \in {"admin", "member", "fail"} :
       CASE res = "fail"   -> Answer(i, res, Say("CouldNotVerifyAdmin"))
         [] res = "member" -> Answer(i, res, Say("AccessDeniedReset"))
         [] res = "admin"  -> handlers' = [handlers EXCEPT ![i].pc = "delete", ![i].auth = res]
  /\ UNCHANGED <<installs, spots, nextId>>

\* Spot.deleteMany: result.deletedCount is the number of documents removed
ResetDelete(i) ==
  LET h == handlers[i]
      deletedCount == Cardinality(ResetFilter(h))
  IN
  /\ h.kind = "reset" /\ h.pc = "delete"
  /\ \E ok \in BOOLEAN :
       IF ~ok THEN UNCHANGED spots /\ Done(i, Say("CouldNotVerifyAdmin"))
       ELSE /\ spots' = spots \ ResetFilter(h)
            /\ IF deletedCount > 0
               THEN Done(i, Reply("Kaboom", deletedCount, <<>>))
               ELSE Done(i, Say("Clean"))
  /\ UNCHANGED <<installs, nextId>>

\* ---------------------------------------------------------- specification
\* documents a store may hold from earlier runs: any status of the schema's enum
SeedSpots ==
  {[id |-> 0, teamId |-> "T1", spotterId |-> 1, targetId |-> 2, imageUrl |-> "F2",
    channelId |-> "C1", messageTs |-> 1, status |-> "pending", timestamp |-> 0]}

MainCommands ==
  Commands({"setchannel", "reset"}, {<<>>})
  \cup Commands({"spotboard", "caughtboard"}, CommandTexts)

Init ==
  /\ installs = [t \in Tenants |-> NoInstall]
  /\ spots = SeedSpots
  /\ nextId = 1
  /\ handlers = [i \in Slots |-> Idle]

Next ==
  \/ \E t \in Tenants : Install(t)
  \/ \E t \in Tenants : Uninstall(t)
  \/ \E m \in Messages : DispatchMessage(m)
  \/ \E c \in MainCommands : DispatchCommand(c)
  \/ \E i \in Slots : SetChannelAuth(i)
  \/ \E i \in Slots : SetChannelUpdate(i)
  \/ \E i \in Slots : SpotGate(i)
  \/ \E i \in Slots : SpotSave(i)
  \/ \E i \in Slots : BoardGate(i)
  \/ \E i \in Slots : BoardAggregate(i)
  \/ \E i \in Slots : PicsGate(i)
  \/ \E i \in Slots : PicsFind(i)
  \/ \E i \in Slots : VetoGate(i)
  \/ \E i \in Slots : VetoAuth(i)
  \/ \E i \in Slots : VetoDelete(i)
  \/ \E i \in Slots : ResetGate(i)
  \/ \E i \in Slots : ResetAuth(i)
  \/ \E i \in Slots : ResetDelete(i)

Spec == Init /\ [][Next]_vars

\* --------------------------------------------- leaderboard specification
\* The limit argument and the aggregation, on stores of up to MaxGroups spotters
\* and targets and every command text of at most MaxTextLen characters.
BoardTexts == UNION {[1..n -> Chars] : n \in 0..MaxTextLen}

BoardSpot(id, spotter, target) ==
  [id |-> id, teamId |-> "T1", spotterId |-> spotter, targetId |-> target,
   imageUrl |-> "F1", channelId |-> "C1", messageTs |-> id, status |-> "confirmed",
   timestamp |-> id]

\* n groups of one Spot each, and a second Spot for spotter n and target 1
BoardStore(n) ==
  {BoardSpot(k, k, k) : k \in 1..n} \cup
  (IF n > 1 THEN {BoardSpot(n + 1, n, 1)} ELSE {})

BoardCommands ==
  {[name |-> n] @@ Event(<<"T1", "C1">>, 1, NoTs, NoTs, text, <<>>) :
     n \in {"spotboard", "caughtboard"}, text \in BoardTexts}

\* store sizes around the limits 5, DefaultLimit and MaxLimit
GroupCounts == {0, 1, 2, 6, DefaultLimit - 1, DefaultLimit + 1, MaxLimit, MaxGroups}

InitBoard ==
  /\ installs = [t \in Tenants |-> [exists |-> TRUE, activeChannelId |-> "C1"]]
  /\ \E n \in GroupCounts : spots = BoardStore(n)
  /\ nextId = MaxGroups + 2
  /\ handlers = [i \in Slots |-> Idle]

DispatchBoard(c) ==
  /\ \A i \in Slots : handlers[i].kind = "idle"
  /\ DispatchCommand(c)

NextBoard ==
  \/ \E c \in BoardCommands : DispatchBoard(c)
  \/ \E i \in Slots : BoardGate(i)
  \/ \E i \in Slots : BoardAggregate(i)

SpecBoard == InitBoard /\ [][NextBoard]_vars

\* ================================================================ claims
IsMessageKind(kind) == kind \in {"spot", "pics", "veto"}
HasMention(text) == \E k \in 1..Len(text) : IsUpperMention(text[k])
FirstMention(text) ==
  LET k == CHOOSE k \in 1..Len(text) :
             IsUpperMention(text[k]) /\ \A j \in 1..(k - 1) : ~IsUpperMention(text[j])
  IN  MentionId(text[k])
Unbound(t) == ~installs[t].exists \/ installs[t].activeChannelId = Null
Min(a, b) == IF a < b THEN a ELSE b

\* C1: when a gated handler (spot, pics, veto, /spotboard, /caughtboard, /reset)
\* checks the gate for a tenant that has no Installation or no active channel, in
\* any channel, it ends there: the Spot and Installation stores are unchanged, a
\* message listener sends no reply and a command sends nothing but the "not
\* active" notice.
C1_UnboundGateNoop ==
  [][\A i \in Slots :
       LET h == handlers[i] IN
       (h.pc = "gate" /\ handlers'[i].pc # "gate" /\ Unbound(h.team)) =>
          /\ spots' = spots
          /\ installs' = installs
          /\ handlers'[i].kind = h.kind
          /\ IF IsMessageKind(h.kind)
             THEN handlers'[i].pc \in {"done", "failed"} /\ handlers'[i].reply = NoReply
             ELSE \/ handlers'[i].pc = "done" /\ handlers'[i].reply = Say("NotActive")
                  \/ handlers'[i].pc = "failed" /\ handlers'[i].reply = NoReply]_vars

\* a /reset of tenant T2 answered "not active" after T2 was uninstalled
C1_Witness ==
  \E i \in Slots :
     /\ handlers[i].kind = "reset" /\ handlers[i].pc = "done"
     /\ handlers[i].reply = Say("NotActive")
     /\ handlers[i].team = "T2" /\ ~installs["T2"].exists

C3_NoImageNoSpot ==
  [][/\ \A s \in spots' \ spots :
          \E i \in Slots :
             /\ handlers[i].kind = "spot" /\ handlers[i].pc = "save"
             /\ handlers'[i].pc = "done"
             /\ Len(handlers[i].files) >= 1 /\ HasMention(handlers[i].text)
             /\ s.messageTs = handlers[i].ts /\ s.imageUrl # Null
     /\ \A i \in Slots :
          (handlers'[i].kind = "spot" /\ Len(handlers'[i].files) = 0)
          => (handlers'[i].pc # "save" /\ handlers'[i].reply # Say("Logged"))]_vars

\* a mention without a file in the active channel: "no photo", and no Spot
C3_Witness ==
  \E i \in Slots :
     /\ handlers[i].kind = "spot" /\ handlers[i].pc = "done"
     /\ HasMention(handlers[i].text) /\ handlers[i].files = <<>>
     /\ handlers[i].reply = Say("NoPhoto")
     /\ spots = SeedSpots /\ nextId = 1

\* C4: a step of the veto listener changes the Spot store only when its message
\* has a thread root timestamp that differs from its own timestamp and
\* users.info reported an administrator, and then it removes exactly one Spot,
\* whose message identifier is the thread root and whose channel and tenant are
\* the message's; every other Spot stays.
C4_VetoScope ==
  [][\A i \in Slots :
       LET h == handlers[i] IN
       (h.kind = "veto" /\ handlers'[i] # h) =>
          \/ spots' = spots
          \/ /\ h.thread_ts # NoTs /\ h.thread_ts # h.ts /\ h.auth = "admin"
             /\ \E s \in spots :
                  /\ spots' = spots \ {s}
                  /\ s.messageTs = h.thread_ts
                  /\ s.channelId = h.channel /\ s.teamId = h.team]_vars

\* an administrator's veto has removed one Spot and another Spot is still stored
C4_Witness ==
  \E i \in Slots :
     /\ handlers[i].kind = "veto" /\ handlers[i].pc = "done"
     /\ handlers[i].auth = "admin"
     /\ handlers[i].reply.type = "Vetoed"
     /\ handlers[i].reply.rows[1] \notin spots
     /\ spots # {}

BoardGroups(h) ==
  {IF h.kind = "spotboard" THEN s.spotterId ELSE s.targetId :
     s \in {x \in spots : x.teamId = h.team /\ x.channelId = h.channel
                          /\ x.status = "confirmed"}}
BoardAnswered(h) == IsBoard(h.kind) /\ h.pc = "done" /\ h.reply.type # "NotActive"

\* C6 (original): the rows listed are at most 10 for a text that is absent or not
\* numeric, and at most the parsed number, clamped to 25, for a numeric text.
C6_Original ==
  \A i \in Slots :
     LET h == handlers[i]
         p == parseInt(h.text)
     IN  BoardAnswered(h) =>
           Len(h.reply.rows) <= (IF p.nan THEN 10 ELSE Min(p.val, 25))

\* C6 (amended): the limit is 10 when the text is absent, not numeric or parses to
\* 0, and otherwise the parsed number clamped to 25; a negative number is rejected
\* by the aggregation and answered with the error reply. Unless the aggregation
\* fails, the rows listed are the smaller of the limit and the number of groups:
\* "5" at most 5, "999" at most 25, "a" or no text exactly 10 with 10 groups or more.
C6_BoardLimit ==
  \A i \in Slots :
     LET h == handlers[i]
         p == parseInt(h.text)
         groups == Cardinality(BoardGroups(h))
         rows == Len(h.reply.rows)
         limit == IF p.nan \/ p.val = 0 THEN 10 ELSE Min(p.val, 25)
     IN  BoardAnswered(h) =>
           /\ h.reply.type \in {"Board", "NoSpotsYet", "TroubleBoard"}
           /\ rows <= 25
           /\ (~p.nan /\ p.val < 0) => h.reply.type = "TroubleBoard"
           /\ h.reply.type = "TroubleBoard" => rows = 0
           /\ h.reply.type # "TroubleBoard" =>
                /\ rows = Min(groups, limit)
                /\ (h.reply.type = "NoSpotsYet") = (groups = 0)
                /\ h.reply.type = "Board" => h.reply.count = limit
                /\ (h.text \in {<<>>, <<"a">>, <<"0">>} /\ groups >= 10) => rows = 10
           /\ h.text = <<"5">> => rows <= 5
           /\ h.text = <<"9", "9", "9">> => rows <= 25

\* "999" on a store of more than 25 groups lists exactly 25 rows
C6_Witness ==
  \E i \in Slots :
     /\ BoardAnswered(handlers[i])
     /\ handlers[i].text = <<"9", "9", "9">>
     /\ Cardinality(BoardGroups(handlers[i])) > 25
     /\ Len(handlers[i].reply.rows) = 25

\* C7 (original): a failed users.info in /setchannel, veto or /reset ends the
\* handler with the "could not verify admin status" reply and unchanged stores.
C7_Original ==
  [][\A i \in Slots :
       (handlers[i].pc = "auth" /\ handlers'[i].auth = "fail") =>
          /\ spots' = spots /\ installs' = installs
          /\ handlers'[i].pc = "done"
          /\ handlers'[i].reply = Say("CouldNotVerifyAdmin")]_vars

\* C7 (amended): a failed users.info in /setchannel, veto or /reset ends the
\* handler as a denial: the stores are unchanged and the requester gets the
\* handler's own generic error reply, "trouble setting the channel" in
\* /setchannel, "trouble processing the veto" in veto and "couldn't verify your
\* admin status" in /reset.
C7_LookupFailureDenies ==
  [][\A i \in Slots :
       LET h == handlers[i] IN
       (h.pc = "auth" /\ handlers'[i].auth = "fail") =>
          /\ h.kind \in {"setchannel", "veto", "reset"}
          /\ spots' = spots /\ installs' = installs
          /\ handlers'[i].pc = "done"
          /\ handlers'[i].reply =
               Say(CASE h.kind = "setchannel" -> "TroubleSetChannel"
                     [] h.kind = "veto" -> "TroubleVeto"
                     [] h.kind = "reset" -> "CouldNotVerifyAdmin")]_vars

\* a veto whose identity lookup failed was answered with the veto error reply
C7_Witness ==
  \E i \in Slots :
     /\ handlers[i].kind = "veto" /\ handlers[i].auth = "fail"
     /\ handlers[i].pc = "done" /\ handlers[i].reply = Say("TroubleVeto")

\* C8: no record store failure escapes a handler: a handler never ends on an
\* uncaught rejection, without a reply.
C8_NoEscape == \A i \in Slots : handlers[i].pc # "failed"

\* C9: whenever /setchannel replies that SpotBot is now active, the tenant's
\* Installation has the invoking channel as its active channel, so that the gate
\* is true for that channel and false for every other channel.
C9_ActiveAfterReply ==
  [][\A i \in Slots :
       LET h == handlers[i] IN
       (/\ h.kind = "setchannel" /\ ~Finished(h)
        /\ handlers'[i].pc = "done" /\ handlers'[i].reply = Say("NowActive"))
       => /\ installs'[h.team].exists
          /\ installs'[h.team].activeChannelId = h.channel]_vars

\* C10: when the pics listener has answered "is clean", the spot listener started
\* for the same message has sent no reply (and so has saved no Spot).
C10_CleanGalleryOnly ==
  \A p, g \in Slots :
     (/\ handlers[p].kind = "pics" /\ handlers[p].reply = Say("Clean")
      /\ handlers[g].kind = "spot" /\ handlers[g].pc = "done"
      /\ handlers[g].ts = handlers[p].ts /\ handlers[g].team = handlers[p].team
      /\ handlers[g].channel = handlers[p].channel)
     => handlers[g].reply = NoReply

\* ===================================================== single-tenant bot
\* The socket-mode bot of one workspace: no Installation records and no
\* /setchannel; Spot documents carry no teamId (Null here). The active channel
\* is the literal the spot and pics listeners compare message.channel with.
SingleChannel == "C0AD6UA1G92"
SingleChannels == {SingleChannel, "C2"}
SinglePlaces == {<<Null, c>> : c \in SingleChannels}

\* app.message(/spot|spotted/i): no mention alternative in this variant
SingleSpotRegex(text) == \E k \in 1..Len(text) : text[k] \in {"spot", "spotted"}

SingleListeners(text) ==
  (IF SingleSpotRegex(text) THEN <<"spot">> ELSE <<>>) \o
  (IF PicsRegex(text) THEN <<"pics">> ELSE <<>>) \o
  (IF VetoRegex(text) THEN <<"veto">> ELSE <<>>)

\* the first step of a listener: the synchronous checks of the message
\* listeners, the users.info call of /reset, the aggregation of the boards
SingleFirstPc(kind) ==
  IF kind \in {"spot", "pics", "veto"} THEN "entry"
  ELSE IF kind = "reset" THEN "auth" ELSE "aggregate"

SingleStart(kind, m) == [Start(kind, m) EXCEPT !.pc = SingleFirstPc(kind)]

SingleLaunch(kinds, m) ==
  /\ Len(kinds) > 0
  /\ FreeSlots = Slots
  /\ handlers' = [i \in Slots |->
                    IF i <= Len(kinds) THEN SingleStart(kinds[i], m) ELSE Idle]

SingleMessages ==
  {Event(p, u, ts, NoTs, text, files) :
     p \in SinglePlaces, u \in Authors, ts \in Ts, text \in SpotTexts, files \in FileLists}
  \cup
  {Event(p, u, 2, NoTs, text, <<>>) :
     p \in SinglePlaces, u \in Authors, text \in {<<"pics", "<@U2>">>, <<"pics">>}}
  \cup
  {Event(p, u, 2, thread_ts, <<"veto">>, <<>>) :
     p \in SinglePlaces, u \in Authors, thread_ts \in {NoTs} \cup Ts}

SingleCommands ==
  {[name |-> n] @@ Event(p, u, NoTs, NoTs, text, <<>>) :
     n \in {"spotboard", "caughtboard", "reset"}, p \in SinglePlaces,
     u \in Authors, text \in CommandTexts}

SingleDispatchMessage(m) ==
  /\ SingleLaunch(SingleListeners(m.text), m)
  /\ UNCHANGED <<installs, spots, nextId>>

SingleDispatchCommand(c) ==
  /\ SingleLaunch(<<c.name>>, c)
  /\ UNCHANGED <<installs, spots, nextId>>

\* ---- spot listener
SingleSpotEntry(i) ==
  LET h == handlers[i]
      targetUser == MentionMatch(h.text)
      hasImage == HasImage(h.files)
  IN
  /\ h.kind = "spot" /\ h.pc = "entry"
  /\ IF h.channel # SingleChannel THEN Done(i, NoReply)
     ELSE IF ShouldSave(targetUser, hasImage) THEN Goto(i, "save")
     ELSE IF ~hasImage /\ targetUser # NoUser THEN Done(i, Say("NoPhoto"))
     ELSE Done(i, NoReply)
  /\ UNCHANGED <<installs, spots, nextId>>

SingleNewSpot(h, id) ==
  [id |-> id, teamId |-> Null, spotterId |-> h.user,
   targetId |-> MentionMatch(h.text), imageUrl |-> FirstFile(h.files),
   channelId |-> h.channel, messageTs |-> h.ts, status |-> "confirmed",
   timestamp |-> id]

SingleSpotSave(i) ==
  LET h == handlers[i] IN
  /\ h.kind = "spot" /\ h.pc = "save"
  /\ \E ok \in BOOLEAN :
       IF ok
       THEN /\ nextId <= MaxSpots
            /\ spots' = spots \cup {SingleNewSpot(h, nextId)}
            /\ nextId' = nextId + 1
            /\ Done(i, Say("Logged"))
       ELSE /\ UNCHANGED <<spots, nextId>>
            /\ Done(i, Say("TroubleSaving"))
  /\ UNCHANGED installs

\* ---- /spotboard and /caughtboard: no channel check
SingleBoardMatch(channelId) ==
  {s \in spots : s.channelId = channelId /\ s.status = "confirmed"}

SingleBoardAggregate(i) ==
  LET h == handlers[i]
      limit == Limit(h.text)
      leaderboard == Aggregate(h.kind, SingleBoardMatch(h.channel), limit)
  IN
  /\ IsBoard(h.kind) /\ h.pc = "aggregate"
  /\ \E ok \in BOOLEAN :
       IF ~ok \/ limit < 1 THEN Done(i, Say("TroubleBoard"))
       ELSE IF Len(leaderboard) = 0 THEN Done(i, Say("NoSpotsYet"))
       ELSE Done(i, Reply("Board", limit, leaderboard))
  /\ UNCHANGED <<installs, spots, nextId>>

\* ---- pics listener
SinglePicsFilter(targetId, channelId) ==
  {s \in spots : /\ s.targetId = targetId /\ s.channelId = channelId
                 /\ s.status = "confirmed"}

SinglePicsEntry(i) ==
  LET h == handlers[i] IN
  /\ h.kind = "pics" /\ h.pc = "entry"
  /\ IF h.channel # SingleChannel THEN Done(i, NoReply)
     ELSE IF MentionMatch(h.text) = NoUser THEN Done(i, Say("Usage"))
     ELSE Goto(i, "find")
  /\ UNCHANGED <<installs, spots, nextId>>

SinglePicsFind(i) ==
  LET h == handlers[i]
      found == Find(SinglePicsFilter(MentionMatch(h.text), h.channel))
  IN
  /\ h.kind = "pics" /\ h.pc = "find"
  /\ \E ok \in BOOLEAN :
       IF ~ok THEN Done(i, Say("TroublePics"))
       ELSE IF Len(found) = 0 THEN Done(i, Say("Clean"))
       ELSE Done(i, Reply("Gallery", Len(found), found))
  /\ UNCHANGED <<installs, spots, nextId>>

\* ---- veto listener: the thread check only, no channel check
SingleVetoFilter(h) ==
  {s \in spots : s.messageTs = h.thread_ts /\ s.channelId = h.channel}

SingleVetoEntry(i) ==
  LET h == handlers[i] IN
  /\ h.kind = "veto" /\ h.pc = "entry"
  /\ IF ~IsThreadReply(h) THEN Done(i, NoReply) ELSE Goto(i, "auth")
  /\ UNCHANGED <<installs, spots, nextId>>

SingleVetoAuth(i) ==
  LET h == handlers[i] IN
  /\ h.kind = "veto" /\ h.pc = "auth"
  /\ \E res \in {"admin", "member", "fail"} :
       CASE res = "fail"   -> Answer(i, res, Say("TroubleVeto"))
         [] res = "member" -> Answer(i, res, Say("AccessDeniedVeto"))
         [] res = "admin"  -> handlers' = [handlers EXCEPT ![i].pc = "delete", ![i].auth = res]
  /\ UNCHANGED <<installs, spots, nextId>>

SingleVetoDelete(i) ==
  LET h == handlers[i] IN
  /\ h.kind = "veto" /\ h.pc = "delete"
  /\ \E ok \in BOOLEAN :
       IF ~ok THEN UNCHANGED spots /\ Done(i, Say("TroubleVeto"))
       ELSE IF SingleVetoFilter(h) = {} THEN UNCHANGED spots /\ Done(i, Say("NoSpotFound"))
       ELSE \E deletedSpot \in SingleVetoFilter(h) :
              /\ spots' = spots \ {deletedSpot}
              /\ Done(i, Reply("Vetoed", 1, <<deletedSpot>>))
  /\ UNCHANGED <<installs, nextId>>

\* ---- /reset: no channel check
SingleResetFilter(h) == {s \in spots : s.channelId = h.channel}

SingleResetAuth(i) ==
  LET h == handlers[i] IN
  /\ h.kind = "reset" /\ h.pc = "auth"
  /\ \E res \in {"admin", "member", "fail"} :
       CASE res = "fail"   -> Answer(i, res, Say("CouldNotVerifyAdmin"))
         [] res = "member" -> Answer(i, res, Say("AccessDeniedReset"))
         [] res = "admin"  -> handlers' = [handlers EXCEPT ![i].pc = "delete", ![i].auth = res]
  /\ UNCHANGED <<installs, spots, nextId>>

SingleResetDelete(i) ==
  LET h == handlers[i]
      deletedCount == Cardinality(SingleResetFilter(h))
  IN
  /\ h.kind = "reset" /\ h.pc = "delete"
  /\ \E ok \in BOOLEAN :
       IF ~ok THEN UNCHANGED spots /\ Done(i, Say("CouldNotVerifyAdmin"))
       ELSE /\ spots' = spots \ SingleResetFilter(h)
            /\ IF deletedCount > 0
               THEN Done(i, Reply("Kaboom", deletedCount, <<>>))
               ELSE Done(i, Say("Clean"))
  /\ UNCHANGED <<installs, nextId>>

\* a fresh Spot collection; Spots are only ever saved in SingleChannel
InitSingle ==
  /\ installs = [t \in Tenants |-> NoInstall]
  /\ spots = {}
  /\ nextId = 1
  /\ handlers = [i \in Slots |-> Idle]

NextSingle ==
  \/ \E m \in SingleMessages : SingleDispatchMessage(m)
  \/ \E c \in SingleCommands : SingleDispatchCommand(c)
  \/ \E i \in Slots : SingleSpotEntry(i)
  \/ \E i \in Slots : SingleSpotSave(i)
  \/ \E i \in Slots : SingleBoardAggregate(i)
  \/ \E i \in Slots : SinglePicsEntry(i)
  \/ \E i \in Slots : SinglePicsFind(i)
  \/ \E i \in Slots : SingleVetoEntry(i)
  \/ \E i \in Slots : SingleVetoAuth(i)
  \/ \E i \in Slots : SingleVetoDelete(i)
  \/ \E i \in Slots : SingleResetAuth(i)
  \/ \E i \in Slots : SingleResetDelete(i)

SpecSingle == InitSingle /\ [][NextSingle]_vars

\* C11: in both variants a handler other than /setchannel whose event is not in
\* the active channel reads and deletes no Spot and ends silent (messages) or
\* with the "not active here" notice only (commands). Stated for the
\* single-tenant bot: a finished handler of an event outside SingleChannel has
\* sent nothing (message listeners) or the notice (commands).
C11_GateFirst ==
  \A i \in Slots :
    LET h == handlers[i] IN
    (h.kind # "idle" /\ h.channel # SingleChannel) =>
      (h.pc = "done" =>
         h.reply = (IF IsMessageKind(h.kind) THEN NoReply ELSE Say("NotActive")))

\* C11, the multi-tenant half: a handler launched outside the tenant's active
\* channel goes from its gate step straight to its end, silent or with the notice,
\* and the Spot collection is untouched.
C11_MultiTenantGate ==
  [][\A i \in Slots :
       LET h == handlers[i] IN
       (/\ h.kind \notin {"idle", "setchannel"} /\ h.pc = "gate"
        /\ handlers'[i] # h
        /\ ~isActiveChannel(h.team, h.channel))
       => /\ spots' = spots
          /\ handlers'[i].pc \in {"done", "failed"}
          /\ handlers'[i].reply =
               (IF IsMessageKind(h.kind) \/ handlers'[i].pc = "failed"
                THEN NoReply ELSE Say("NotActive"))]_vars

\* the Spots a reply shows or counts belong to the handler's tenant: gallery and
\* veto rows are Spots of the tenant, a leaderboard row counts the tenant's
\* confirmed Spots of the channel, a reset count is at most the tenant's Spots
OwnSpotsOnly(h, reply, store) ==
  LET own == {s \in store : s.teamId = h.team} IN
  CASE reply.type \in {"Gallery", "Vetoed"} ->
         \A k \in 1..Len(reply.rows) :
            reply.rows[k] \in own
    [] reply.type = "Board" ->
         \A k \in 1..Len(reply.rows) :
            reply.rows[k].count =
              Cardinality({s \in own : /\ s.channelId = h.channel
                                       /\ s.status = "confirmed"
                                       /\ GroupKey(h.kind, s) = reply.rows[k].id})
    [] reply.type = "Kaboom" -> reply.count <= Cardinality(own)
    [] OTHER -> TRUE

\* C12: tenants are isolated. A step of a handler of tenant A (spot, pics, veto,
\* /spotboard, /caughtboard, /reset, /setchannel) removes no Spot of another
\* tenant, leaves every other tenant's Installation record, and with it its
\* active channel, as it was, and shows or counts in its reply only Spots of A,
\* also when both tenants use the same channel and message identifiers.
C12_TenantIsolation ==
  [][\A i \in Slots :
       LET h == handlers[i] IN
       (h.kind # "idle" /\ ~Finished(h) /\ handlers'[i] # h) =>
          /\ \A s \in spots \ spots' : s.teamId = h.team
          /\ \A s \in spots' \ spots : s.teamId = h.team
          /\ \A t \in Tenants \ {h.team} : installs'[t] = installs[t]
          /\ OwnSpotsOnly(h, handlers'[i].reply, spots)]_vars

\* tenant T2 has vetoed its own Spot while a Spot of T1 with the same channel and
\* message identifiers is still stored
C12_Witness ==
  \E i \in Slots :
     LET h == handlers[i] IN
     /\ h.kind = "veto" /\ h.team = "T2" /\ h.reply.type = "Vetoed"
     /\ h.reply.rows[1].teamId = "T2"
     /\ \E s \in spots : /\ s.teamId = "T1"
                         /\ s.channelId = h.reply.rows[1].channelId
                         /\ s.messageTs = h.reply.rows[1].messageTs

\* ================================================ concurrent veto and /reset
\* Up to three veto and /reset listeners of tenant T1 run at once in its active
\* channel C1 on a store of confirmed Spots; each slot is used once, so every
\* reply sent stays visible.
MaxRaceSpots == 3
\* the timestamp of the "veto" replies themselves
RaceReplyTs == 3

\* the k-th Spot saved: message 1 was logged once, message 2 once or, when the
\* event was delivered again, several times
RaceSpot(k) ==
  [id |-> k, teamId |-> "T1", spotterId |-> 1, targetId |-> 2, imageUrl |-> "F1",
   channelId |-> "C1", messageTs |-> IF k = 1 THEN 1 ELSE 2, status |-> "confirmed",
   timestamp |-> k]

RaceStore(n) == {RaceSpot(k) : k \in 1..n}

InitRace ==
  /\ installs = [t \in Tenants |->
                   IF t = "T1" THEN [exists |-> TRUE, activeChannelId |-> "C1"]
                   ELSE NoInstall]
  /\ \E n \in 1..MaxRaceSpots : spots = RaceStore(n) /\ nextId = n + 1
  /\ handlers = [i \in Slots |-> Idle]

\* the next listener starts while the earlier ones are still running
RaceLaunch(i, kind, m) ==
  /\ handlers[i].kind = "idle"
  /\ \A j \in Slots : j < i => handlers[j].kind # "idle"
  /\ fetchInstallation(m.team)
  /\ handlers' = [handlers EXCEPT ![i] = Start(kind, m)]
  /\ UNCHANGED <<installs, spots, nextId>>

\* user i replies "veto" in the thread of message thread_ts
RaceDispatchVeto(i, thread_ts) ==
  RaceLaunch(i, "veto", Event(<<"T1", "C1">>, i, RaceReplyTs, thread_ts, <<"veto">>, <<>>))

RaceDispatchReset(i) ==
  RaceLaunch(i, "reset", Event(<<"T1", "C1">>, i, NoTs, NoTs, <<>>, <<>>))

NextRace ==
  \/ \E i \in Slots, thread_ts \in Ts : RaceDispatchVeto(i, thread_ts)
  \/ \E i \in Slots : RaceDispatchReset(i)
  \/ \E i \in Slots : VetoGate(i)
  \/ \E i \in Slots : VetoAuth(i)
  \/ \E i \in Slots : VetoDelete(i)
  \/ \E i \in Slots : ResetGate(i)
  \/ \E i \in Slots : ResetAuth(i)
  \/ \E i \in Slots : ResetDelete(i)

SpecRace == InitRace /\ [][NextRace]_vars

\* what a finished handler told its user it removed
Reported(h) ==
  IF h.reply.type = "Vetoed" THEN 1
  ELSE IF h.reply.type = "Kaboom" THEN h.reply.count ELSE 0

RECURSIVE SumReported(_)
SumReported(S) ==
  IF S = {} THEN 0
  ELSE LET i == CHOOSE j \in S : TRUE
       IN  Reported(handlers[i]) + SumReported(S \ {i})

\* Spots saved so far that are no longer stored
Removed == (nextId - 1) - Cardinality(spots)

\* the Spots saved for one message
SavedFor(thread_ts) == {k \in 1..(nextId - 1) : RaceSpot(k).messageTs = thread_ts}

\* an administrator's veto of the thread whose findOneAndDelete was answered
VetoAnswered(h, thread_ts) ==
  /\ h.kind = "veto" /\ h.pc = "done" /\ h.auth = "admin"
  /\ h.thread_ts = thread_ts
  /\ h.reply.type \in {"Vetoed", "NoSpotFound"}

\* C13 (original): when two administrators veto the same thread concurrently,
\* exactly one receives "Vetoed" and the other "No spot found". Stated for a
\* thread whose message has one Spot saved, for two vetoes whose deletes the
\* store answered, with no third veto running.
C13_Original ==
  \A i, j \in Slots, thread_ts \in Ts :
     (/\ i # j
      /\ VetoAnswered(handlers[i], thread_ts) /\ VetoAnswered(handlers[j], thread_ts)
      /\ Cardinality(SavedFor(thread_ts)) = 1
      /\ \A k \in Slots \ {i, j} : handlers[k].kind # "veto")
     => {handlers[i].reply.type, handlers[j].reply.type} = {"Vetoed", "NoSpotFound"}

\* C13: under every interleaving of veto and /reset handlers each removal is
\* reported once: the "Vetoed" confirmations plus the counts of the resets equal
\* the number of Spots removed, a vetoed Spot is gone and no two vetoes report the
\* same Spot, and of the administrators' answered vetoes of one thread at most as
\* many are confirmed as Spots were saved for its message; when one Spot was
\* saved for it and no reset has reported a removal, exactly one of them is
\* confirmed and the others are told that no spot was found.
C13_RemovalReportedOnce ==
  /\ SumReported(Slots) = Removed
  /\ \A i \in Slots :
       handlers[i].reply.type = "Vetoed" => handlers[i].reply.rows[1] \notin spots
  /\ \A i, j \in Slots :
       (i # j /\ handlers[i].reply.type = "Vetoed" /\ handlers[j].reply.type = "Vetoed")
       => handlers[i].reply.rows[1] # handlers[j].reply.rows[1]
  /\ \A thread_ts \in Ts :
       LET answered == {i \in Slots : VetoAnswered(handlers[i], thread_ts)}
           confirmed == {i \in answered : handlers[i].reply.type = "Vetoed"}
       IN  /\ Cardinality(confirmed) <= Cardinality(SavedFor(thread_ts))
           /\ (/\ answered # {}
               /\ Cardinality(SavedFor(thread_ts)) = 1
               /\ \A k \in Slots : handlers[k].reply.type # "Kaboom")
              => Cardinality(confirmed) = 1

\* two administrators have vetoed the same thread, one was confirmed and the
\* other found no spot, and a reset has reported the Spots it removed
C13_Witness ==
  \E i, j, k \in Slots :
     /\ VetoAnswered(handlers[i], handlers[j].thread_ts)
     /\ VetoAnswered(handlers[j], handlers[i].thread_ts)
     /\ handlers[i].reply.type = "Vetoed" /\ handlers[j].reply.type = "NoSpotFound"
     /\ handlers[k].reply.type = "Kaboom"
     /\ SumReported(Slots) > 1

====
